---- MODULE Spec2Model ----
(***************************************************************************)
(* Structural retrieval pipeline of the research discovery engine:         *)
(*   - PDFProcessor._chunk_text          (services/pdf_processor.py)       *)
(*   - EmbeddingService.embed_schema     (services/embedding_service.py)   *)
(*   - KeywordsGateway.structural_abstraction (services/keywords_gateway.py)*)
(*   - ResearchAgent.process_paper / find_analogous_papers                 *)
(*                                        (agents/research_agent.py)       *)
(* Texts are sequences of one-character strings; Python's 0-based, half-   *)
(* open indexing is kept in the cursor variables and translated to TLA+'s  *)
(* 1-based sequences inside PySlice / PyRFind.                             *)
(***************************************************************************)
EXTENDS Integers, Sequences, FiniteSets, TLC

VARIABLES
    text,        \* _chunk_text: the text argument
    chunk_size,  \* _chunk_text: the chunk_size argument
    overlap,     \* _chunk_text: the overlap argument
    start,       \* _chunk_text: the cursor (local variable start)
    chunks,      \* _chunk_text: the list being built
    windows,     \* history: one record per loop iteration (cursor, end, slice taken)
    unrecorded,  \* history: parity of the iterations made after the history stopped recording
    cpc,         \* _chunk_text: "idle" | "loop" | "done"
    embed_calls, \* embed_schema: per call, the schema given and the text sent to the oracle
    calls,       \* process_paper: per call, its position, locals, trace and outcome
    papers,      \* store: the rows of table "papers", in insertion order
    paper_chunks,\* store: the rows of table "paper_chunks", in insertion order
    rank         \* find_analogous_papers / find_analogies: the last request and its outcome

chunkVars == <<text, chunk_size, overlap, start, chunks, windows, unrecorded, cpc>>

projVars == <<embed_calls>>

ingestVars == <<calls, paper_chunks>>

rankVars == <<rank>>

vars == <<text, chunk_size, overlap, start, chunks, windows, unrecorded, cpc,
          embed_calls,
          calls, papers, paper_chunks, rank>>

-----------------------------------------------------------------------------
(* Bounds *)

MaxLen == 5
MaxChunkSize == 4
ScenarioLen == 5000
MaxLiveLen == 4
MaxCorpus == 3
MaxTopK == 3

(* Program constants *)

DefaultChunkSize == 2000
DefaultOverlap == 200

DefaultTopK == 5

-----------------------------------------------------------------------------
(* The state of each component before it is used *)

ChunkIdle ==
    /\ text = <<>>
    /\ chunk_size = DefaultChunkSize
    /\ overlap = DefaultOverlap
    /\ start = 0
    /\ chunks = <<>>
    /\ windows = <<>>
    /\ unrecorded = 0
    /\ cpc = "idle"

NoCall == [made |-> FALSE]

ProjIdle == embed_calls = [c \in {"first", "second"} |-> NoCall]

Calls == {"c1", "c2"}

NotInvoked == [pc |-> "idle"]

IngestIdle ==
    /\ calls = [c \in Calls |-> NotInvoked]
    /\ paper_chunks = <<>>

StoreEmpty == papers = <<>>

NoRequest == [op |-> "none"]

RankIdle == rank = NoRequest

-----------------------------------------------------------------------------
(* Generic helpers *)

Min(a, b) == IF a < b THEN a ELSE b
Max(a, b) == IF a > b THEN a ELSE b

CeilDiv(a, b) == (a + b - 1) \div b

SetMax(S) == CHOOSE x \in S : \A y \in S : y <= x
SetMin(S) == CHOOSE x \in S : \A y \in S : x <= y

-----------------------------------------------------------------------------
(* Structural schemas *)

\* A JSON value of a schema field: a string or a list of strings.
Str(s) == [t |-> "str", v |-> s]
List(l) == [t |-> "list", v |-> l]

\* dict.get(key, default); a schema is a function from the keys it has.
Get(schema, key, default) ==
    IF key \in DOMAIN schema THEN schema[key] ELSE default

\* The schema with key set to value (schema[key] = value).
Put(schema, key, value) ==
    [k \in DOMAIN schema \cup {key} |-> IF k = key THEN value ELSE schema[k]]

\* The dict made of the partial dicts a and b, which have no key in common.
Merge(a, b) ==
    [k \in DOMAIN a \cup DOMAIN b |-> IF k \in DOMAIN a THEN a[k] ELSE b[k]]

EmptyDict == [k \in {} |-> Str("")]

-----------------------------------------------------------------------------
(* EmbeddingService.embed_schema: lines 39-50, the text sent to the oracle *)

RECURSIVE JoinFrom(_, _)
JoinFrom(l, k) ==
    IF k > Len(l) THEN ""
    ELSE IF k = Len(l) THEN l[k]
    ELSE l[k] \o ", " \o JoinFrom(l, k + 1)

\* ", ".join(value): of a list its items, of a string its characters (strings
\* of at most one character are their own join; no longer string occurs in a
\* list field here).
Join(value) == IF value.t = "list" THEN JoinFrom(value.v, 1) ELSE value.v

\* Mutant of KeyFields: the domain label leaks into the optimization goal.
KeyFields_WithDomain(schema) ==
    [optimization_goal |->
        Get(schema, "optimization_goal", Str("")).v
            \o Get(schema, "domain", Str("")).v,
     constraints |-> Join(Get(schema, "constraints", List(<<>>))),
     state_variables |-> Join(Get(schema, "state_variables", List(<<>>))),
     failure_modes |-> Join(Get(schema, "failure_modes", List(<<>>)))]

\* Lines 39-44.
KeyFields(schema) ==
    [optimization_goal |-> Get(schema, "optimization_goal", Str("")).v,
     constraints |-> Join(Get(schema, "constraints", List(<<>>))),
     state_variables |-> Join(Get(schema, "state_variables", List(<<>>))),
     failure_modes |-> Join(Get(schema, "failure_modes", List(<<>>)))]

\* Lines 47-50.
EmbeddingText(schema) ==
    LET key_fields == KeyFields(schema)
    IN  "Optimization Goal: " \o key_fields.optimization_goal
        \o "\nConstraints: " \o key_fields.constraints
        \o "\nState Variables: " \o key_fields.state_variables
        \o "\nFailure Modes: " \o key_fields.failure_modes

\* The four fields the embedding is computed from.
SimilarityFields ==
    {"optimization_goal", "constraints", "state_variables", "failure_modes"}

\* Partial dicts over the four similarity fields.
KeyParts ==
    {Merge(Merge(g, c), Merge(sv, fm)) :
        g \in {EmptyDict, [optimization_goal |-> Str("min cost")]},
        c \in {EmptyDict, [constraints |-> List(<<>>)],
               [constraints |-> List(<<"budget", "time">>)]},
        sv \in {EmptyDict, [state_variables |-> List(<<"load">>)]},
        fm \in {EmptyDict, [failure_modes |-> List(<<"collapse">>)]}}

\* Partial dicts over the five other fields.
OtherParts ==
    {Merge(Merge(n, d), e) :
        n \in {EmptyDict, [system_name |-> Str("grid")],
               [system_name |-> Str("market")]},
        d \in {EmptyDict, [domain |-> Str("bio")], [domain |-> Str("phys")]},
        e \in {EmptyDict,
               [entities |-> List(<<"node">>),
                key_equations_or_principles |-> List(<<"balance">>),
                plain_language_summary |-> Str("a network")]}}

ProjSchemas == {Merge(k, o) : k \in KeyParts, o \in OtherParts}

\* embed_schema(schema) up to the oracle request of lines 54-57.
EmbedSchema(c, schema) ==
    /\ ~embed_calls[c].made
    /\ embed_calls' = [embed_calls EXCEPT ![c] =
                          [made |-> TRUE, schema |-> schema,
                           input |-> EmbeddingText(schema)]]
    /\ UNCHANGED <<chunkVars, ingestVars, papers, rankVars>>

ProjInit == ChunkIdle /\ ProjIdle /\ IngestIdle /\ StoreEmpty /\ RankIdle


ProjNext == \E c \in {"first", "second"} : \E schema \in ProjSchemas :
                EmbedSchema(c, schema)

ProjSpec == ProjInit /\ [][ProjNext]_vars


-----------------------------------------------------------------------------
(* Python string primitives used by _chunk_text *)

Alphabet == {"a", ".", "!", "?", " ", "\n"}

Whitespace == {" ", "\n"}

\* Python's normalisation of a slice index against a sequence of length n.
PyIndex(i, n) == IF i < 0 THEN Max(i + n, 0) ELSE Min(i, n)

\* text[s:e]
PySlice(t, s, e) ==
    LET lo == PyIndex(s, Len(t))
        hi == PyIndex(e, Len(t))
    IN  IF lo < hi THEN SubSeq(t, lo + 1, hi) ELSE <<>>

\* The set of 0-based positions text[s:e] is made of.
PySlicePositions(t, s, e) ==
    LET lo == PyIndex(s, Len(t))
        hi == PyIndex(e, Len(t))
    IN  {i \in 0..(Len(t) - 1) : lo <= i /\ i < hi}

\* text.rfind(p, s, e) for a two-character p: the highest 0-based index i with
\* s' <= i, i + 2 <= e' and text[i:i+2] == p, or -1.
PyRFind(t, p, s, e) ==
    LET lo == PyIndex(s, Len(t))
        hi == PyIndex(e, Len(t))
        hits == {i \in 0..(Len(t) - 2) :
                    /\ lo <= i
                    /\ i + 2 <= hi
                    /\ t[i + 1] = p[1]
                    /\ t[i + 2] = p[2]}
    IN  IF hits = {} THEN -1 ELSE SetMax(hits)

\* s.strip()
PyStrip(s) ==
    LET keep == {i \in 1..Len(s) : s[i] \notin Whitespace}
    IN  IF keep = {} THEN <<>> ELSE SubSeq(s, SetMin(keep), SetMax(keep))

-----------------------------------------------------------------------------
(* PDFProcessor._chunk_text *)

\* The list literal of line 82, in its order.
Puncts == << <<".", " ">>, <<".", "\n">>, <<"!", " ">>, <<"!", "\n">>,
             <<"?", " ">>, <<"?", "\n">> >>

\* Lines 82-86: the for loop with its break; k is the index into Puncts.
RECURSIVE SentenceEndFrom(_, _, _, _)
SentenceEndFrom(t, s, e, k) ==
    IF k > Len(Puncts) THEN e
    ELSE LET last_punct == PyRFind(t, Puncts[k], s, e)
         IN  IF last_punct # -1 THEN last_punct + 2
             ELSE SentenceEndFrom(t, s, e, k + 1)

\* Lines 77-86: the end of the window that starts at cursor s.
WindowEnd(t, s, cs) ==
    LET end == s + cs
    IN  IF end < Len(t) THEN SentenceEndFrom(t, s, end, 1) ELSE end

\* Mutant of NextStart: the cursor moves to the window's end, without overlap.
NextStart_NoOverlap(end, ov) == end

\* Line 92.
NextStart(end, ov) == end - ov

\* A run that terminates visits each cursor value at most once, and every
\* cursor lies in (-overlap, len(text)); a run longer than this limit never
\* terminates, its list grows without bound, and the history stops recording:
\* of the iterations after the limit only the parity is kept.
HistoryLimit == Len(text) + overlap + 1

ChunkStep ==
    /\ cpc = "loop"
    /\ start < Len(text)
    /\ LET end == WindowEnd(text, start, chunk_size)
           chunk == PyStrip(PySlice(text, start, end))
           recording == Len(windows) < HistoryLimit
       IN  /\ chunks' = IF recording /\ chunk # <<>> THEN Append(chunks, chunk)
                        ELSE chunks
           /\ windows' = IF recording
                         THEN Append(windows, [start |-> start, end |-> end,
                                               raw_end |-> start + chunk_size])
                         ELSE windows
           /\ unrecorded' = IF recording THEN unrecorded ELSE 1 - unrecorded
           /\ start' = NextStart(end, overlap)
    /\ UNCHANGED <<text, chunk_size, overlap, cpc>>
    /\ UNCHANGED <<projVars, ingestVars, papers, rankVars>>

ChunkReturn ==
    /\ cpc = "loop"
    /\ ~(start < Len(text))
    /\ cpc' = "done"
    /\ UNCHANGED <<text, chunk_size, overlap, start, chunks, windows, unrecorded>>
    /\ UNCHANGED <<projVars, ingestVars, papers, rankVars>>

\* Texts of length n over Alphabet.
TextsOfLen(n) == [1..n -> Alphabet]

Texts == UNION {TextsOfLen(n) : n \in 0..MaxLen}

\* The synthetic punctuation-free text of end-to-end scenario 1.
ScenarioText == [i \in 1..ScenarioLen |-> "a"]

\* A text whose only sentence end is at its very beginning.
LeadingPunctText == <<".", " ", "a", "a", "a", "a", "a", "a">>

ChunkInputs ==
    {<<t, cs, ov>> \in Texts \X (1..MaxChunkSize) \X (0..(MaxChunkSize - 1)) :
        ov < cs}
    \cup {<<ScenarioText, DefaultChunkSize, DefaultOverlap>>}
    \cup {<<LeadingPunctText, 7, 3>>}

ChunkInit ==
    /\ \E inp \in ChunkInputs :
          /\ text = inp[1]
          /\ chunk_size = inp[2]
          /\ overlap = inp[3]
    /\ start = 0
    /\ chunks = <<>>
    /\ windows = <<>>
    /\ unrecorded = 0
    /\ cpc = "loop"
    /\ ProjIdle /\ IngestIdle /\ StoreEmpty /\ RankIdle

ChunkNext == ChunkStep \/ ChunkReturn

ChunkSpec == ChunkInit /\ [][ChunkNext]_vars

\* Termination is checked on the texts of length up to MaxLiveLen made of a
\* letter, a full stop and a space.
LiveAlphabet == {"a", ".", " "}

LiveChunkInit ==
    /\ ChunkInit
    /\ Len(text) <= MaxLiveLen
    /\ \A i \in 1..Len(text) : text[i] \in LiveAlphabet

\* The loop is sequential code: an enabled iteration is eventually executed.
FairChunkSpec == LiveChunkInit /\ [][ChunkNext]_vars /\ WF_vars(ChunkNext)

-----------------------------------------------------------------------------
(* KeywordsGateway.structural_abstraction: lines 210-218, the default fill *)

RequiredFields ==
    <<"system_name", "domain", "entities", "state_variables",
      "optimization_goal", "constraints", "failure_modes",
      "key_equations_or_principles", "plain_language_summary">>

RequiredFieldSet == {RequiredFields[i] : i \in 1..Len(RequiredFields)}

\* Line 218, evaluated for a field that is not in schema.
FillValue(schema, field) ==
    IF Get(schema, field, Str("")).t = "str" THEN Str("") ELSE List(<<>>)

\* Lines 216-218: the fields present keep their values.
DefaultFill(schema) ==
    [k \in DOMAIN schema \cup RequiredFieldSet |->
        IF k \in DOMAIN schema THEN schema[k] ELSE FillValue(schema, k)]

\* The JSON objects the schema oracle answers with.
CompleteSchema ==
    [system_name |-> Str("grid"), domain |-> Str("bio"),
     entities |-> List(<<"node">>), state_variables |-> List(<<"load">>),
     optimization_goal |-> Str("min cost"),
     constraints |-> List(<<"budget", "time">>),
     failure_modes |-> List(<<"collapse">>),
     key_equations_or_principles |-> List(<<"balance">>),
     plain_language_summary |-> Str("a network")]

Without(schema, keys) == [k \in DOMAIN schema \ keys |-> schema[k]]

OracleSchemas ==
    {CompleteSchema,
     Without(CompleteSchema, {"domain"}),
     Without(CompleteSchema, {"constraints", "plain_language_summary"}),
     EmptyDict}

-----------------------------------------------------------------------------
(* Stored embeddings: _store_paper lines 285 and 295-296, and json.loads *)

ListEmbedding(items) == [kind |-> "list", items |-> items]
TextEmbedding(tokens) == [kind |-> "text", tokens |-> tokens]
NoEmbedding == [kind |-> "none"]

\* The numbers an embedding component takes here.
Components == -1..2

RECURSIVE CommaJoinFrom(_, _)
CommaJoinFrom(items, k) ==
    IF k > Len(items) THEN <<>>
    ELSE IF k = Len(items) THEN <<ToString(items[k])>>
    ELSE <<ToString(items[k]), ",">> \o CommaJoinFrom(items, k + 1)

\* Line 295: "[" + ",".join(map(str, embedding)) + "]", as its tokens.
EmbeddingStr(items) == <<"[">> \o CommaJoinFrom(items, 1) \o <<"]">>

\* float(token) for the token str() made.
ParseNumber(token) == CHOOSE n \in Components : ToString(n) = token

\* json.loads of the text EmbeddingStr writes: the numbers between the
\* brackets, every other token being a comma.
JsonLoads(tokens) ==
    LET inner == SubSeq(tokens, 2, Len(tokens) - 1)
    IN  [i \in 1..((Len(inner) + 1) \div 2) |-> ParseNumber(inner[2 * i - 1])]

-----------------------------------------------------------------------------
(* ResearchAgent.process_paper *)

\* str(uuid.uuid4()): a fresh identifier per call.
PaperId(c) == "paper-" \o c

TitleArgs == {"", "Given"}

\* What extract_text_from_pdf returns: the title it finds and the chunks.
Documents ==
    {[title |-> "Extracted", chunks |-> <<"k0">>],
     [title |-> "Extracted", chunks |-> <<"k0", "k1">>]}

\* The vectors the embedding oracle answers with.
OracleVectors == {<<1, 1, 0>>, <<1, 0, 1>>}

Success(name) == [step |-> name, status |-> "success"]

\* Mutant of Raise: the failure is re-raised without an entry in the error
\* list.
Raise_Silent(c) ==
    calls' = [calls EXCEPT ![c].pc = "raised"]

\* Lines 123-129: the except clause.
Raise(c) ==
    calls' = [calls EXCEPT ![c].pc = "raised",
                           ![c].errors = Append(@, [step |-> "processing"])]

\* Lines 43-51.
Invoke(c, pdf_present, title) ==
    /\ calls[c].pc = "idle"
    /\ calls' = [calls EXCEPT ![c] =
          IF ~pdf_present
          THEN [pc |-> "raised", steps |-> <<>>, errors |-> <<>>]
          ELSE [pc |-> "extract", paper_id |-> PaperId(c), title |-> title,
                steps |-> <<>>, errors |-> <<>>]]
    /\ UNCHANGED <<chunkVars, projVars, papers, paper_chunks, rankVars>>

\* Lines 54-69: step A.
Extract(c, ok, doc) ==
    /\ calls[c].pc = "extract"
    /\ IF ok
       THEN calls' = [calls EXCEPT ![c] =
               [pc |-> "abstract", paper_id |-> @.paper_id,
                title |-> IF @.title # "" THEN @.title ELSE doc.title,
                chunks |-> doc.chunks,
                steps |-> Append(@.steps, Success("pdf_ingestion")),
                errors |-> @.errors]]
       ELSE Raise(c)
    /\ UNCHANGED <<chunkVars, projVars, papers, paper_chunks, rankVars>>

\* Lines 72-90: step B.
Abstract(c, ok, oracle_schema) ==
    /\ calls[c].pc = "abstract"
    /\ IF ok
       THEN LET filled == DefaultFill(oracle_schema)
                schema == Put(filled, "domain",
                              Get(filled, "domain", Str("unknown")))
            IN  calls' = [calls EXCEPT ![c] =
                   [pc |-> "embed", paper_id |-> @.paper_id, title |-> @.title,
                    chunks |-> @.chunks, oracle_schema |-> oracle_schema,
                    schema |-> schema,
                    steps |-> Append(@.steps, Success("structural_abstraction")),
                    errors |-> @.errors]]
       ELSE Raise(c)
    /\ UNCHANGED <<chunkVars, projVars, papers, paper_chunks, rankVars>>

\* Mutant of Embed: the Paper row is written before the embedding oracle is
\* called.
Embed_PaperFirst(c, ok, vector) ==
    /\ calls[c].pc = "embed"
    /\ papers' = Append(papers,
                    [id |-> calls[c].paper_id, title |-> calls[c].title,
                     domain |-> Get(calls[c].schema, "domain", Str("unknown")),
                     structural_schema |-> calls[c].schema,
                     structural_embedding |-> NoEmbedding])
    /\ IF ok
       THEN calls' = [calls EXCEPT ![c] =
               [pc |-> "store_paper", paper_id |-> @.paper_id, title |-> @.title,
                chunks |-> @.chunks, oracle_schema |-> @.oracle_schema,
                schema |-> @.schema, embedding |-> vector,
                input |-> EmbeddingText(@.schema),
                steps |-> @.steps, errors |-> @.errors,
                paper_writes |-> 0, chunk_writes |-> 0]]
       ELSE Raise(c)
    /\ UNCHANGED <<chunkVars, projVars, paper_chunks, rankVars>>

\* Lines 93-94: embed_schema.
Embed(c, ok, vector) ==
    /\ calls[c].pc = "embed"
    /\ IF ok
       THEN calls' = [calls EXCEPT ![c] =
               [pc |-> "store_paper", paper_id |-> @.paper_id, title |-> @.title,
                chunks |-> @.chunks, oracle_schema |-> @.oracle_schema,
                schema |-> @.schema, embedding |-> vector,
                input |-> EmbeddingText(@.schema),
                steps |-> @.steps, errors |-> @.errors,
                paper_writes |-> 0, chunk_writes |-> 0]]
       ELSE Raise(c)
    /\ UNCHANGED <<chunkVars, projVars, papers, paper_chunks, rankVars>>

\* Lines 278-287: paper_data, with the embedding in the given encoding.
PaperData(call, embedding) ==
    [id |-> call.paper_id,
     title |-> call.title,
     domain |-> Get(call.schema, "domain", Str("unknown")),
     structural_schema |-> call.schema,
     structural_embedding |-> embedding]

\* Mutant of InsertPaper: a failed insert is surfaced without a second attempt.
InsertPaper_NoRetry(c, ok) ==
    /\ calls[c].pc = "store_paper"
    /\ IF ok
       THEN /\ papers' = Append(papers,
                            PaperData(calls[c], ListEmbedding(calls[c].embedding)))
            /\ calls' = [calls EXCEPT ![c].pc = "store_chunks",
                                      ![c].paper_writes = @ + 1]
       ELSE /\ papers' = papers
            /\ calls' = [calls EXCEPT ![c].pc = "raised",
                                      ![c].paper_writes = @ + 1,
                                      ![c].errors = Append(@, [step |-> "processing"])]
    /\ UNCHANGED <<chunkVars, projVars, paper_chunks, rankVars>>

\* Lines 97-105 and 289-290: the first insert into "papers".
InsertPaper(c, ok) ==
    /\ calls[c].pc = "store_paper"
    /\ IF ok
       THEN /\ papers' = Append(papers,
                            PaperData(calls[c], ListEmbedding(calls[c].embedding)))
            /\ calls' = [calls EXCEPT ![c].pc = "store_chunks",
                                      ![c].paper_writes = @ + 1]
       ELSE /\ papers' = papers
            /\ calls' = [calls EXCEPT ![c].pc = "retry_paper",
                                      ![c].paper_writes = @ + 1]
    /\ UNCHANGED <<chunkVars, projVars, paper_chunks, rankVars>>

\* Lines 291-297: the insert with the embedding formatted as a string.
RetryInsertPaper(c, ok) ==
    /\ calls[c].pc = "retry_paper"
    /\ IF ok
       THEN /\ papers' = Append(papers,
                            PaperData(calls[c],
                                TextEmbedding(EmbeddingStr(calls[c].embedding))))
            /\ calls' = [calls EXCEPT ![c].pc = "store_chunks",
                                      ![c].paper_writes = @ + 1]
       ELSE /\ papers' = papers
            /\ calls' = [calls EXCEPT ![c].pc = "raised",
                                      ![c].paper_writes = @ + 1,
                                      ![c].errors = Append(@, [step |-> "processing"])]
    /\ UNCHANGED <<chunkVars, projVars, paper_chunks, rankVars>>

\* Mutant of ChunksData: the indexes start at one.
ChunksData_OneBased(call) ==
    [i \in 1..Len(call.chunks) |->
        [paper_id |-> call.paper_id, chunk_index |-> i,
         text_content |-> call.chunks[i]]]

\* Lines 251-258: chunks_data.
ChunksData(call) ==
    [i \in 1..Len(call.chunks) |->
        [paper_id |-> call.paper_id, chunk_index |-> i - 1,
         text_content |-> call.chunks[i]]]

\* Mutant of InsertChunks: a failed chunk insert is swallowed and the call
\* returns.
InsertChunks_Swallowed(c, ok) ==
    /\ calls[c].pc = "store_chunks"
    /\ LET chunks_data == ChunksData(calls[c])
       IN  /\ paper_chunks' = IF chunks_data = <<>> \/ ok
                              THEN paper_chunks \o chunks_data
                              ELSE paper_chunks
           /\ calls' = [calls EXCEPT
                 ![c].pc = "returned",
                 ![c].chunk_writes = IF chunks_data = <<>> THEN @ ELSE @ + 1,
                 ![c].steps = Append(@, Success("embedding_storage"))]
    /\ UNCHANGED <<chunkVars, projVars, papers, rankVars>>

\* Lines 108-121 and 260-261: the insert into "paper_chunks", then the last
\* trace entry and the return.
InsertChunks(c, ok) ==
    /\ calls[c].pc = "store_chunks"
    /\ LET chunks_data == ChunksData(calls[c])
       IN  IF chunks_data = <<>> \/ ok
           THEN /\ paper_chunks' = paper_chunks \o chunks_data
                /\ calls' = [calls EXCEPT
                      ![c].pc = "returned",
                      ![c].chunk_writes = IF chunks_data = <<>> THEN @ ELSE @ + 1,
                      ![c].steps = Append(@, Success("embedding_storage"))]
           ELSE /\ paper_chunks' = paper_chunks
                /\ calls' = [calls EXCEPT
                      ![c].pc = "raised",
                      ![c].chunk_writes = @ + 1,
                      ![c].errors = Append(@, [step |-> "processing"])]
    /\ UNCHANGED <<chunkVars, projVars, papers, rankVars>>

\* Lines 116-121: what a call that returned hands to its caller.
Result(call) ==
    [paper_id |-> call.paper_id, title |-> call.title, schema |-> call.schema,
     trace |-> [paper_id |-> call.paper_id, steps |-> call.steps,
                errors |-> call.errors]]

IngestInit == ChunkIdle /\ ProjIdle /\ IngestIdle /\ StoreEmpty /\ RankIdle

IngestNext ==
    \E c \in Calls :
        \/ \E pdf_present \in BOOLEAN, title \in TitleArgs :
              Invoke(c, pdf_present, title)
        \/ \E ok \in BOOLEAN, doc \in Documents : Extract(c, ok, doc)
        \/ \E ok \in BOOLEAN, oracle_schema \in OracleSchemas :
              Abstract(c, ok, oracle_schema)
        \/ \E ok \in BOOLEAN, vector \in OracleVectors : Embed(c, ok, vector)
        \/ \E ok \in BOOLEAN : InsertPaper(c, ok)
        \/ \E ok \in BOOLEAN : RetryInsertPaper(c, ok)
        \/ \E ok \in BOOLEAN : InsertChunks(c, ok)

IngestSpec == IngestInit /\ [][IngestNext]_vars

-----------------------------------------------------------------------------
(* ResearchAgent.find_analogous_papers *)

NoneValue == [t |-> "none"]

\* Truth value of an optional string: None and "" are false.
Truthy(value) == value.t # "none" /\ value.v # ""

\* Truth value of a stored embedding: None, [] and "" are false.
HasEmbedding(e) ==
    CASE e.kind = "none" -> FALSE
      [] e.kind = "list" -> e.items # <<>>
      [] e.kind = "text" -> e.tokens # <<>>

\* Lines 179-183: the vector of a stored embedding, decoded if it is text.
PaperVector(e) == IF e.kind = "text" THEN JsonLoads(e.tokens) ELSE e.items

RECURSIVE DotFrom(_, _, _)
DotFrom(a, b, k) ==
    IF k > Len(a) THEN 0 ELSE a[k] * b[k] + DotFrom(a, b, k + 1)

\* np.dot of two vectors of one length.
Dot(a, b) == DotFrom(a, b, 1)

\* np.linalg.norm(a) squared; the norm is positive exactly when this is.
NormSq(a) == Dot(a, a)

\* Mutant of Similarity: the dot product is divided by the query's norm only.
Similarity_Unnormalised(q, v) ==
    LET dot_product == Dot(q, v)
    IN  [num |-> IF dot_product < 0 THEN -(dot_product * dot_product)
                 ELSE dot_product * dot_product,
         den |-> NormSq(q) * NormSq(q)]

\* Line 191. The cosine dot / (|q| * |p|) is kept as the exact fraction
\* sign(dot) * dot^2 / (|q|^2 * |p|^2), which orders as the cosine does and
\* is 1 exactly when the cosine is 1.
Similarity(q, v) ==
    LET dot_product == Dot(q, v)
    IN  [num |-> IF dot_product < 0 THEN -(dot_product * dot_product)
                 ELSE dot_product * dot_product,
         den |-> NormSq(q) * NormSq(v)]

ScoreLess(x, y) == x.num * y.den < y.num * x.den
ScoreEqual(x, y) == x.num * y.den = y.num * x.den

\* Lines 167-168.
DomainFilter(all_papers, exclude_domain) ==
    IF Truthy(exclude_domain)
    THEN SelectSeq(all_papers, LAMBDA p : p.domain # exclude_domain)
    ELSE all_papers

\* Lines 175-177: the papers the loop does not skip at its first test.
WithEmbedding(all_papers) ==
    SelectSeq(all_papers, LAMBDA p : HasEmbedding(p.structural_embedding))

\* Line 186 raises when the two vectors differ in length.
DotRaises(q, all_papers) ==
    \E k \in 1..Len(all_papers) :
        Len(PaperVector(all_papers[k].structural_embedding)) # Len(q)

\* Lines 174-195: the similarities list, when no iteration raises.
Similarities(q, all_papers) ==
    LET usable == SelectSeq(all_papers,
                     LAMBDA p : NormSq(q) > 0
                                /\ NormSq(PaperVector(p.structural_embedding)) > 0)
    IN  [k \in 1..Len(usable) |->
            [paper |-> usable[k],
             similarity |-> Similarity(q, PaperVector(usable[k].structural_embedding))]]

\* Mutant of InsertDescending: x goes before the entries of equal similarity.
InsertBeforeEqual(sorted, x) ==
    LET before == {k \in 1..Len(sorted) :
                      ScoreLess(x.similarity, sorted[k].similarity)}
        n == Cardinality(before)
    IN  SubSeq(sorted, 1, n) \o <<x>> \o SubSeq(sorted, n + 1, Len(sorted))

\* x placed into a list sorted by similarity descending, after every entry
\* whose similarity is not less than its own.
InsertDescending(sorted, x) ==
    LET before == {k \in 1..Len(sorted) :
                      ~ScoreLess(sorted[k].similarity, x.similarity)}
        n == Cardinality(before)
    IN  SubSeq(sorted, 1, n) \o <<x>> \o SubSeq(sorted, n + 1, Len(sorted))

\* Line 198: list.sort(key=similarity, reverse=True), a stable sort.
RECURSIVE SortDescending(_)
SortDescending(l) ==
    IF l = <<>> THEN <<>>
    ELSE InsertDescending(SortDescending(SubSeq(l, 1, Len(l) - 1)), l[Len(l)])

\* Line 199: similarities[:top_k].
TopMatches(similarities, top_k) == PySlice(similarities, 0, top_k)

\* Lines 201-210.
Match(m) ==
    [paper_id |-> m.paper.id, title |-> m.paper.title, domain |-> m.paper.domain,
     schema |-> m.paper.structural_schema, similarity_score |-> m.similarity]

\* Lines 152-210: what the call yields for the oracle's answer (ok, q).
Analogies(ok, q, top_k, exclude_domain) ==
    LET all_papers == WithEmbedding(DomainFilter(papers, exclude_domain))
    IN  IF ~ok \/ DotRaises(q, all_papers)
        THEN [status |-> "error"]
        ELSE LET top_matches ==
                     TopMatches(SortDescending(Similarities(q, all_papers)), top_k)
             IN  [status |-> "ok",
                  matches |-> [k \in 1..Len(top_matches) |-> Match(top_matches[k])]]

\* One retrieval request is followed per behaviour: a request leaves the store
\* as it is, so a later request sees what the first one sees.
FindAnalogousPapers(ok, q, top_k, exclude_domain) ==
    /\ rank = NoRequest
    /\ rank' = [op |-> "find_analogous_papers", query |-> q, top_k |-> top_k,
                exclude_domain |-> exclude_domain,
                outcome |-> Analogies(ok, q, top_k, exclude_domain)]
    /\ UNCHANGED <<chunkVars, projVars, ingestVars, papers>>

\* An absent key of the request body.
Absent == [t |-> "absent"]

\* app.py lines 78-110: the endpoint; top_k and exclude_domain as the body
\* gives them.
FindAnalogies(paper_id, body_top_k, body_exclude, ok, q) ==
    LET found == {k \in 1..Len(papers) : papers[k].id = paper_id}
    IN  /\ rank = NoRequest
        /\ rank' =
              IF found = {}
              THEN [op |-> "find_analogies", paper_id |-> paper_id,
                    outcome |-> [status |-> "not_found"]]
              ELSE LET domain == papers[SetMin(found)].domain
                       top_k == IF body_top_k = Absent THEN DefaultTopK
                                ELSE body_top_k.v
                       exclude_domain == IF body_exclude = Absent THEN domain
                                         ELSE body_exclude
                   IN  [op |-> "find_analogies", paper_id |-> paper_id,
                        query |-> q, top_k |-> top_k,
                        exclude_domain |-> exclude_domain,
                        outcome |-> Analogies(ok, q, top_k, exclude_domain)]
        /\ UNCHANGED <<chunkVars, projVars, ingestVars, papers>>

\* The rows of "papers" a query finds in the store.
RowDomains == {Str(""), Str("bio")}

\* The last two are what _store_paper writes for an empty embedding: the list
\* at its first attempt (line 285), the text "[]" at its retry (line 295).
RowEmbeddings ==
    {NoEmbedding, ListEmbedding(<<0, 0, 0>>), ListEmbedding(<<1, 1, 0>>),
     ListEmbedding(<<1, 0, 1>>), ListEmbedding(<<2, 2, 0>>),
     TextEmbedding(EmbeddingStr(<<1, 1, 0>>)),
     ListEmbedding(<<>>), TextEmbedding(EmbeddingStr(<<>>))}

RowId(k) == "paper-" \o ToString(k)

Corpora ==
    UNION {[1..n -> RowDomains \X RowEmbeddings] : n \in 0..MaxCorpus}

CorpusRows(c) ==
    [k \in 1..Len(c) |->
        [id |-> RowId(k), title |-> "T", domain |-> c[k][1],
         structural_schema |-> EmptyDict, structural_embedding |-> c[k][2]]]

QueryVectors == {<<1, 1, 0>>, <<0, 0, 0>>}

TopKs == (-1)..MaxTopK

ExcludeValues == {NoneValue, Str(""), Str("bio")}

\* The identifiers a request names: the first stored paper's and one that no
\* stored paper has.
RequestIds == {RowId(1), RowId(MaxCorpus + 1)}

\* research_agent.py lines 212-247: generate_explanation_for_match, for the
\* narrative oracle's answer ok; an unresolved target raises ValueError.
GenerateExplanationForMatch(target_paper_id, ok) ==
    LET found == {k \in 1..Len(papers) : papers[k].id = target_paper_id}
    IN  IF found = {} THEN [raised |-> "ValueError"]
        ELSE IF ~ok THEN [raised |-> "Exception"]
        ELSE [raised |-> "no", target_paper_id |-> target_paper_id]

\* app.py lines 112-146: the explain endpoint; store_ok tells whether the
\* store answers its reads.
ExplainAnalogy(paper_id, target_paper_id, store_ok, ok) ==
    LET found == {k \in 1..Len(papers) : papers[k].id = paper_id}
        result == GenerateExplanationForMatch(target_paper_id, ok)
    IN  /\ rank = NoRequest
        /\ rank' = [op |-> "explain_analogy", paper_id |-> paper_id,
                    target_paper_id |-> target_paper_id,
                    outcome |->
                        IF ~store_ok THEN [status |-> "error"]
                        ELSE IF found = {} THEN [status |-> "not_found"]
                        ELSE IF result.raised # "no" THEN [status |-> "error"]
                        ELSE [status |-> "ok",
                              target_paper_id |-> result.target_paper_id]]
        /\ UNCHANGED <<chunkVars, projVars, ingestVars, papers>>

\* app.py lines 197-220: the paper endpoint.
GetPaper(paper_id, store_ok) ==
    LET found == {k \in 1..Len(papers) : papers[k].id = paper_id}
    IN  /\ rank = NoRequest
        /\ rank' = [op |-> "get_paper", paper_id |-> paper_id,
                    outcome |->
                        IF ~store_ok THEN [status |-> "error"]
                        ELSE IF found = {} THEN [status |-> "not_found"]
                        ELSE [status |-> "ok", paper |-> papers[SetMin(found)]]]
        /\ UNCHANGED <<chunkVars, projVars, ingestVars, papers>>

RankInit ==
    /\ ChunkIdle /\ ProjIdle /\ IngestIdle /\ RankIdle
    /\ \E c \in Corpora : papers = CorpusRows(c)

RankNext ==
    \/ \E ok \in BOOLEAN, q \in QueryVectors, top_k \in TopKs,
          exclude_domain \in ExcludeValues :
          FindAnalogousPapers(ok, q, top_k, exclude_domain)
    \/ \E paper_id \in RequestIds,
          body_top_k \in {Absent, [t |-> "int", v |-> -1], [t |-> "int", v |-> 2]},
          body_exclude \in {Absent, Str("")},
          ok \in BOOLEAN, q \in QueryVectors :
          FindAnalogies(paper_id, body_top_k, body_exclude, ok, q)
    \/ \E paper_id \in RequestIds, target_paper_id \in RequestIds,
          store_ok \in BOOLEAN, ok \in BOOLEAN :
          ExplainAnalogy(paper_id, target_paper_id, store_ok, ok)
    \/ \E paper_id \in RequestIds, store_ok \in BOOLEAN :
          GetPaper(paper_id, store_ok)

RankSpec == RankInit /\ [][RankNext]_vars

-----------------------------------------------------------------------------
(* Properties of _chunk_text *)

Done == cpc = "done"

\* The 0-based positions of the text that some slice text[start:end] taken
\* by the loop contains.
Covered ==
    UNION {PySlicePositions(text, windows[k].start, windows[k].end) :
              k \in 1..Len(windows)}

HasNonWhitespace(t) == \E i \in 1..Len(t) : t[i] \notin Whitespace

NoWhitespace(t) == \A i \in 1..Len(t) : t[i] \notin Whitespace

\* The sentence ends text.rfind sees in the window [s, e), over all six kinds.
SentenceEndsIn(t, s, e) ==
    {PyRFind(t, Puncts[k], s, e) : k \in 1..Len(Puncts)} \ {-1}

\* C1: for every text and 0 <= overlap < chunk_size the chunker terminates:
\* the cursor reaches or passes the text length after finitely many
\* iterations (checked under FairChunkSpec).
C1_Terminates == <>Done

\* C2: when the chunker has returned, every character position of the text
\* lies inside the slice [start, end) of at least one window it took.
C2_NoGaps == Done => \A i \in 0..(Len(text) - 1) : i \in Covered

\* C3: a text shorter than chunk_size that has a non-whitespace character
\* yields exactly one chunk, the whole text trimmed.
C3_ShortTextOneChunk ==
    (Done /\ Len(text) < chunk_size /\ HasNonWhitespace(text))
        => chunks = <<PyStrip(text)>>

\* C4 as stated: a text without whitespace (hence without sentence ends)
\* longer than chunk_size has its first window end at chunk_size and yields
\* ceil((L - chunk_size) / (chunk_size - overlap)) chunks.
C4_OriginalCount ==
    (Done /\ NoWhitespace(text) /\ Len(text) > chunk_size)
        => /\ windows[1].end = chunk_size
           /\ Len(chunks) = CeilDiv(Len(text) - chunk_size, chunk_size - overlap)

\* C4 amended: a text without whitespace (hence without sentence ends) longer
\* than chunk_size has its first window end at chunk_size and yields
\* ceil(L / (chunk_size - overlap)) chunks, which is 3 for L = 5000,
\* chunk_size = 2000, overlap = 200.
C4_ChunkCount ==
    (Done /\ NoWhitespace(text) /\ Len(text) > chunk_size)
        => /\ windows[1].end = chunk_size
           /\ Len(chunks) = CeilDiv(Len(text), chunk_size - overlap)

C4_Witness ==
    /\ Done
    /\ text = ScenarioText
    /\ chunk_size = DefaultChunkSize
    /\ overlap = DefaultOverlap
    /\ windows[1].end = 2000
    /\ Len(chunks) = 3

\* C5: whenever a window's right edge lies before the end of the text and the
\* window contains a sentence end of any of the six kinds, the chunk ends
\* right after the one nearest to the right edge (its index + 2).
C5_NearestSentenceEnd ==
    \A k \in 1..Len(windows) :
        LET w == windows[k]
            ends == SentenceEndsIn(text, w.start, w.raw_end)
        IN  (w.raw_end < Len(text) /\ ends # {}) => w.end = SetMax(ends) + 2

-----------------------------------------------------------------------------
(* Properties of embed_schema *)

\* Two schemas agree on a field when both lack it or both hold the same value.
AgreeOn(s1, s2, key) ==
    /\ (key \in DOMAIN s1) <=> (key \in DOMAIN s2)
    /\ (key \in DOMAIN s1) => s1[key] = s2[key]

\* The schema with every missing similarity field set to its empty value.
WithEmptyKeyFields(schema) ==
    [k \in DOMAIN schema \cup SimilarityFields |->
        IF k \in DOMAIN schema THEN schema[k]
        ELSE IF k = "optimization_goal" THEN Str("") ELSE List(<<>>)]

\* C6: two embed_schema calls whose schemas agree on optimization_goal,
\* constraints, state_variables and failure_modes send the same text to the
\* embedding oracle, whatever the other fields hold; and a schema that lacks
\* some of the four fields sends the text of the same schema with the empty
\* value in their place.
C6_ProjectionDeterminism ==
    /\ \A c1, c2 \in DOMAIN embed_calls :
          (/\ embed_calls[c1].made
           /\ embed_calls[c2].made
           /\ \A key \in SimilarityFields :
                 AgreeOn(embed_calls[c1].schema, embed_calls[c2].schema, key))
              => embed_calls[c1].input = embed_calls[c2].input
    /\ \A c1, c2 \in DOMAIN embed_calls :
          (/\ embed_calls[c1].made
           /\ embed_calls[c2].made
           /\ embed_calls[c2].schema = WithEmptyKeyFields(embed_calls[c1].schema))
              => embed_calls[c1].input = embed_calls[c2].input

\* Both calls made, with equal similarity fields, different system_name and
\* domain, and one of the schemas lacking a similarity field.
C6_Witness ==
    /\ embed_calls["first"].made
    /\ embed_calls["second"].made
    /\ \A key \in SimilarityFields :
          AgreeOn(embed_calls["first"].schema, embed_calls["second"].schema, key)
    /\ "failure_modes" \notin DOMAIN embed_calls["first"].schema
    /\ "system_name" \in DOMAIN embed_calls["first"].schema
    /\ "system_name" \in DOMAIN embed_calls["second"].schema
    /\ embed_calls["first"].schema["system_name"]
           # embed_calls["second"].schema["system_name"]
    /\ "domain" \in DOMAIN embed_calls["first"].schema
    /\ "domain" \in DOMAIN embed_calls["second"].schema
    /\ embed_calls["first"].schema["domain"] # embed_calls["second"].schema["domain"]
    /\ embed_calls["first"].input = embed_calls["second"].input

-----------------------------------------------------------------------------
(* Properties of process_paper *)

\* The rows of "papers" that carry the identifier id.
PaperRows(id) == {k \in 1..Len(papers) : papers[k].id = id}

\* C7: after an ingestion whose schema oracle output omits the domain field
\* has returned, the domain of the returned schema and the domain label of
\* the persisted Paper record are both "unknown".
C7_DomainUnknown ==
    \A c \in Calls :
        (/\ calls[c].pc = "returned"
         /\ "domain" \notin DOMAIN calls[c].oracle_schema)
            => /\ Result(calls[c]).schema["domain"] = Str("unknown")
               /\ PaperRows(calls[c].paper_id) # {}
               /\ \A k \in PaperRows(calls[c].paper_id) :
                     papers[k].domain = Str("unknown")

\* The rows of "paper_chunks" that reference the identifier id.
ChunkRows(id) == {k \in 1..Len(paper_chunks) : paper_chunks[k].paper_id = id}

\* The Paper record of call c and every record of its Chunk batch are in the
\* store.
Stored(c) ==
    /\ PaperRows(calls[c].paper_id) # {}
    /\ \A i \in 1..Len(calls[c].chunks) :
          \E k \in ChunkRows(calls[c].paper_id) :
              /\ paper_chunks[k].chunk_index = i - 1
              /\ paper_chunks[k].text_content = calls[c].chunks[i]

\* A step of call c fails for good: extraction, schema derivation, embedding,
\* the second Paper write or the Chunk write.
StepFails(c) ==
    \/ \E doc \in Documents : Extract(c, FALSE, doc)
    \/ \E oracle_schema \in OracleSchemas : Abstract(c, FALSE, oracle_schema)
    \/ \E vector \in OracleVectors : Embed(c, FALSE, vector)
    \/ RetryInsertPaper(c, FALSE)
    \/ InsertChunks(c, FALSE)

\* C13: a call of process_paper has returned a result only if its Paper
\* record and its whole Chunk batch are in the store, and a step that fails,
\* the Chunk write after a persisted Paper included, leaves the call raised,
\* not returned.
C13_ReturnsOnlyWhenStored ==
    [][\A c \in Calls :
          /\ calls'[c].pc = "returned" => Stored(c)'
          /\ StepFails(c) => calls'[c].pc = "raised"]_vars

\* The Chunk write of a call failed after its Paper record was persisted: the
\* call is raised, and the store holds the Paper and none of its chunks.
C13_Witness ==
    \E c \in Calls :
        /\ calls[c].pc = "raised"
        /\ "chunk_writes" \in DOMAIN calls[c]
        /\ calls[c].chunk_writes = 1
        /\ PaperRows(calls[c].paper_id) # {}
        /\ ChunkRows(calls[c].paper_id) = {}

\* C14: a call that failed before its first Paper write (empty bytes,
\* extraction, schema derivation or embedding) has written no Paper record
\* and no Chunk record.
C14_NoWriteBeforeStorage ==
    \A c \in Calls :
        (calls[c].pc = "raised" /\ "paper_writes" \notin DOMAIN calls[c])
            => /\ PaperRows(PaperId(c)) = {}
               /\ ChunkRows(PaperId(c)) = {}

\* One call failed at the embedding step, after two recorded steps, and wrote
\* nothing, while the store holds the records of the other call.
C14_Witness ==
    \E c, d \in Calls :
        /\ calls[c].pc = "raised"
        /\ "paper_writes" \notin DOMAIN calls[c]
        /\ Len(calls[c].steps) = 2
        /\ PaperRows(PaperId(c)) = {}
        /\ ChunkRows(PaperId(c)) = {}
        /\ calls[d].pc = "returned"
        /\ papers # <<>>
        /\ paper_chunks # <<>>

\* The fields the schema declares as lists; the other four are strings.
ListFields ==
    {"entities", "state_variables", "constraints", "failure_modes",
     "key_equations_or_principles"}

\* C16: once structural_abstraction has returned, the schema holds all nine
\* fields, and a field the oracle's output omitted holds the empty list if it
\* is one of the five list fields and the empty string otherwise.
C16_TypedDefaults ==
    \A c \in Calls :
        "schema" \in DOMAIN calls[c] =>
            \A field \in RequiredFieldSet :
                /\ field \in DOMAIN calls[c].schema
                /\ field \notin DOMAIN calls[c].oracle_schema
                      => calls[c].schema[field] =
                            IF field \in ListFields THEN List(<<>>) ELSE Str("")

\* The Chunk records of call c, in store order.
ChunksOf(c) == SelectSeq(paper_chunks, LAMBDA row : row.paper_id = PaperId(c))

\* C17: every Chunk record in the store references a Paper record in the
\* store with the same identifier, and the Chunk records of one paper carry
\* the indexes 0..n-1 in the order the chunker gave its n chunks.
C17_ChunksFollowPaper ==
    /\ \A k \in 1..Len(paper_chunks) : PaperRows(paper_chunks[k].paper_id) # {}
    /\ \A c \in Calls :
          ChunksOf(c) # <<>> =>
              /\ Len(ChunksOf(c)) = Len(calls[c].chunks)
              /\ \A i \in 1..Len(ChunksOf(c)) :
                    /\ ChunksOf(c)[i].chunk_index = i - 1
                    /\ ChunksOf(c)[i].text_content = calls[c].chunks[i]

\* Both calls have stored their chunks, one of them two chunks, and one Paper
\* record was written by the retry, while the other call was still running.
C17_Witness ==
    \E c, d \in Calls :
        /\ c # d
        /\ Len(ChunksOf(c)) = 2
        /\ Len(ChunksOf(d)) >= 1
        /\ Len(papers) = 2
        /\ papers[1].id = PaperId(d)
        /\ paper_chunks[1].paper_id = PaperId(c)
        /\ \E k \in 1..Len(papers) : papers[k].structural_embedding.kind = "text"

\* The entries of the trace, as the code names its three stages.
StageNames == <<"pdf_ingestion", "structural_abstraction", "embedding_storage">>

Ended(c) == calls[c].pc \in {"returned", "raised"}

\* The call got past the empty-bytes test, so its trace exists.
Traced(c) == "paper_id" \in DOMAIN calls[c]

\* How many of the four steps of call c completed: extraction and chunking,
\* schema derivation, embedding, persistence.
CompletedSteps(c) ==
    IF calls[c].pc = "returned" THEN 4
    ELSE IF "embedding" \in DOMAIN calls[c] THEN 3
    ELSE IF "schema" \in DOMAIN calls[c] THEN 2
    ELSE IF "chunks" \in DOMAIN calls[c] THEN 1
    ELSE 0

\* How many of the code's three stages completed, embedding and persistence
\* being one stage.
CompletedStages(c) ==
    IF calls[c].pc = "returned" THEN 3 ELSE Min(CompletedSteps(c), 2)

\* C18 as stated: the trace of an ended call holds one success entry for
\* each of the four steps that completed, and the error list one entry
\* exactly if a step failed.
C18_EntryPerStep ==
    \A c \in Calls :
        (Ended(c) /\ Traced(c)) =>
            /\ Len(calls[c].steps) = CompletedSteps(c)
            /\ \A i \in 1..Len(calls[c].steps) : calls[c].steps[i].status = "success"
            /\ Len(calls[c].errors) = IF calls[c].pc = "raised" THEN 1 ELSE 0

\* C18: the trace of an ended call holds, in pipeline order, one success
\* entry for each stage that completed, of the three stages pdf_ingestion,
\* structural_abstraction and embedding_storage, the last of which is
\* complete when embedding and both store writes are; the error list holds
\* one entry if the call failed and none otherwise.
C18_EntryPerStage ==
    \A c \in Calls :
        (Ended(c) /\ Traced(c)) =>
            /\ calls[c].steps =
                  [i \in 1..CompletedStages(c) |-> Success(StageNames[i])]
            /\ Len(calls[c].errors) = IF calls[c].pc = "raised" THEN 1 ELSE 0

\* A call failed at its Chunk write: embedding and the Paper write are done,
\* the trace holds the first two entries and the error list one.
C18_Witness ==
    \E c \in Calls :
        /\ calls[c].pc = "raised"
        /\ CompletedSteps(c) = 3
        /\ calls[c].chunk_writes = 1
        /\ Len(calls[c].steps) = 2
        /\ Len(calls[c].errors) = 1

\* C19: an ingestion makes at most two Paper writes and at most one Chunk
\* write; the second Paper write follows a failed first one and carries the
\* embedding as text; the failure of a Paper write is surfaced only after the
\* second attempt; the Chunk write happens only with the Paper in the store.
C19_WritePolicy ==
    \A c \in Calls :
        "paper_writes" \in DOMAIN calls[c] =>
            /\ calls[c].paper_writes <= 2
            /\ calls[c].chunk_writes <= 1
            /\ calls[c].pc = "retry_paper" => calls[c].paper_writes = 1
            /\ calls[c].chunk_writes = 1 => PaperRows(calls[c].paper_id) # {}
            /\ calls[c].pc \in {"store_chunks", "returned"}
                  => PaperRows(calls[c].paper_id) # {}
            /\ Cardinality(PaperRows(calls[c].paper_id)) <= 1
            /\ \A k \in PaperRows(calls[c].paper_id) :
                  papers[k].structural_embedding =
                      IF calls[c].paper_writes = 1
                      THEN ListEmbedding(calls[c].embedding)
                      ELSE TextEmbedding(EmbeddingStr(calls[c].embedding))
            /\ (calls[c].pc = "raised" /\ PaperRows(calls[c].paper_id) = {})
                  => calls[c].paper_writes = 2 /\ calls[c].chunk_writes = 0
            /\ (calls[c].pc = "raised" /\ PaperRows(calls[c].paper_id) # {})
                  => calls[c].chunk_writes = 1 /\ ChunkRows(calls[c].paper_id) = {}

\* One call stored its Paper at the second attempt, as text, and then its
\* chunks; the other gave up after two failed Paper writes.
C19_Witness ==
    \E c, d \in Calls :
        /\ calls[c].pc = "returned"
        /\ calls[c].paper_writes = 2
        /\ calls[c].chunk_writes = 1
        /\ \E k \in PaperRows(calls[c].paper_id) :
              papers[k].structural_embedding.kind = "text"
        /\ calls[d].pc = "raised"
        /\ "paper_writes" \in DOMAIN calls[d]
        /\ calls[d].paper_writes = 2
        /\ calls[d].chunk_writes = 0

-----------------------------------------------------------------------------
(* Properties of find_analogous_papers *)

Answered ==
    /\ rank.op \in {"find_analogous_papers", "find_analogies"}
    /\ rank.outcome.status = "ok"

\* The position in the store of the paper a match reports.
CorpusIndex(match) ==
    SetMin({k \in 1..Len(papers) : papers[k].id = match.paper_id})

\* C8: the returned list is ordered by similarity score descending, and two
\* entries of equal score keep the relative order they have in the corpus
\* loaded from the store.
C8_SortedStable ==
    Answered =>
        \A i, j \in 1..Len(rank.outcome.matches) :
            i < j =>
                LET mi == rank.outcome.matches[i]
                    mj == rank.outcome.matches[j]
                IN  /\ ~ScoreLess(mi.similarity_score, mj.similarity_score)
                    /\ ScoreEqual(mi.similarity_score, mj.similarity_score)
                          => CorpusIndex(mi) < CorpusIndex(mj)

\* Three entries returned: the last two tie and are below the first.
C8_Witness ==
    /\ Answered
    /\ Len(rank.outcome.matches) = 3
    /\ ScoreLess(rank.outcome.matches[2].similarity_score,
                 rank.outcome.matches[1].similarity_score)
    /\ ScoreEqual(rank.outcome.matches[2].similarity_score,
                  rank.outcome.matches[3].similarity_score)
    /\ CorpusIndex(rank.outcome.matches[2]) < CorpusIndex(rank.outcome.matches[3])

\* The stored papers that the domain filter of the request keeps, that have a
\* stored vector and that have, like the query, a non-zero norm.
Eligible ==
    {k \in 1..Len(papers) :
        /\ ~(Truthy(rank.exclude_domain) /\ papers[k].domain = rank.exclude_domain)
        /\ HasEmbedding(papers[k].structural_embedding)
        /\ NormSq(PaperVector(papers[k].structural_embedding)) > 0
        /\ NormSq(rank.query) > 0}

\* C9: the result has min(top_k, number of eligible candidates) entries when
\* top_k > 0 and is empty when top_k <= 0.
C9_ResultLength ==
    Answered =>
        Len(rank.outcome.matches) =
            IF rank.top_k > 0 THEN Min(rank.top_k, Cardinality(Eligible)) ELSE 0

\* C10: whatever string is given as exclude_domain, the empty string
\* included, no returned entry has that domain label.
C10_ExcludedDomainAbsent ==
    (Answered /\ rank.exclude_domain.t = "str") =>
        \A i \in 1..Len(rank.outcome.matches) :
            rank.outcome.matches[i].domain # rank.exclude_domain

\* The domain filter of the request drops stored paper k.
DomainExcluded(k) ==
    Truthy(rank.exclude_domain) /\ papers[k].domain = rank.exclude_domain

\* The stored papers whose vector is the query vector, of positive norm, and
\* that the domain filter of the request keeps.
IdenticalCandidates ==
    {k \in 1..Len(papers) :
        /\ ~DomainExcluded(k)
        /\ HasEmbedding(papers[k].structural_embedding)
        /\ PaperVector(papers[k].structural_embedding) = rank.query
        /\ NormSq(rank.query) > 0}

One == [num |-> 1, den |-> 1]

\* C11 as stated: with top_k >= 1, the candidate identical to the query (the
\* earliest one, if there are several) is the first entry of the result and
\* its score is 1, whatever else the corpus holds.
C11_IdenticalFirst ==
    (Answered /\ rank.top_k >= 1 /\ IdenticalCandidates # {}) =>
        /\ rank.outcome.matches # <<>>
        /\ CorpusIndex(rank.outcome.matches[1]) = SetMin(IdenticalCandidates)
        /\ ScoreEqual(rank.outcome.matches[1].similarity_score, One)

\* C11: with top_k >= 1 and a candidate identical to the query (norm > 0, not
\* domain-excluded) in the corpus, the first entry of the result has
\* similarity 1 and is that candidate or a candidate placed earlier in the
\* corpus whose similarity is 1 as well.
C11_IdenticalOrEarlierParallelFirst ==
    (Answered /\ rank.top_k >= 1) =>
        \A k \in IdenticalCandidates :
            /\ rank.outcome.matches # <<>>
            /\ ScoreEqual(rank.outcome.matches[1].similarity_score, One)
            /\ CorpusIndex(rank.outcome.matches[1]) <= k
            /\ (\A j \in 1..(k - 1) :
                    j \in Eligible =>
                        ~ScoreEqual(Similarity(rank.query,
                                        PaperVector(papers[j].structural_embedding)),
                                    One))
                  => CorpusIndex(rank.outcome.matches[1]) = k

\* The identical candidate, second in the corpus, is returned first, ahead of
\* a parallel candidate placed after it that scores 1 too.
C11_Witness ==
    /\ Answered
    /\ rank.top_k >= 1
    /\ 2 \in IdenticalCandidates
    /\ Len(rank.outcome.matches) >= 2
    /\ CorpusIndex(rank.outcome.matches[1]) = 2
    /\ CorpusIndex(rank.outcome.matches[2]) = 3
    /\ ScoreEqual(rank.outcome.matches[1].similarity_score, One)
    /\ ScoreEqual(rank.outcome.matches[2].similarity_score, One)
    /\ PaperVector(papers[3].structural_embedding) # rank.query

\* A stored vector that is absent, empty or of zero norm.
Unusable(e) == e.kind = "none" \/ NormSq(PaperVector(e)) = 0

\* The stored vectors of corpus scenario 3: A at similarity 0.5 to the query
\* (1,1,0), B identical to it, C of zero norm.
ScenarioCorpus ==
    /\ Len(papers) = 3
    /\ papers[1].structural_embedding = ListEmbedding(<<1, 0, 1>>)
    /\ papers[2].structural_embedding = ListEmbedding(<<1, 1, 0>>)
    /\ papers[3].structural_embedding = ListEmbedding(<<0, 0, 0>>)

\* C12: when the embedding oracle answers, find_analogous_papers returns a
\* result, without error, that holds no stored paper whose vector is absent,
\* empty or of zero norm; the result is empty for an empty corpus, and it is
\* [B, A] for the corpus [A, B, C] of scenario 3 with top_k >= 2.
C12_UnusableSkipped ==
    [][\A q \in QueryVectors, top_k \in TopKs, exclude_domain \in ExcludeValues :
          FindAnalogousPapers(TRUE, q, top_k, exclude_domain) =>
              /\ rank'.outcome.status = "ok"
              /\ \A i \in 1..Len(rank'.outcome.matches) :
                    ~Unusable(papers[CorpusIndex(rank'.outcome.matches[i])]
                                  .structural_embedding)
              /\ papers = <<>> => rank'.outcome.matches = <<>>
              /\ (/\ ScenarioCorpus
                  /\ q = <<1, 1, 0>>
                  /\ top_k >= 2
                  /\ exclude_domain = NoneValue)
                    => /\ Len(rank'.outcome.matches) = 2
                       /\ rank'.outcome.matches[1].paper_id = RowId(2)
                       /\ rank'.outcome.matches[2].paper_id = RowId(1)]_vars

-----------------------------------------------------------------------------
(* Properties of the endpoints *)

Unknown(paper_id) == \A k \in 1..Len(papers) : papers[k].id # paper_id

\* C15: when the store answers, a request of find-analogies, explain-match or
\* get-paper that names an unknown paper, as its source or as its target,
\* ends with the not-found outcome, not with the outcome of system errors.
C15_UnknownIdNotFound ==
    [][\A paper_id \in RequestIds :
          /\ \A body_top_k \in {Absent, [t |-> "int", v |-> -1],
                                 [t |-> "int", v |-> 2]},
                body_exclude \in {Absent, Str("")},
                ok \in BOOLEAN, q \in QueryVectors :
                (/\ FindAnalogies(paper_id, body_top_k, body_exclude, ok, q)
                 /\ Unknown(paper_id))
                    => rank'.outcome.status = "not_found"
          /\ (GetPaper(paper_id, TRUE) /\ Unknown(paper_id))
                => rank'.outcome.status = "not_found"
          /\ \A target_paper_id \in RequestIds, ok \in BOOLEAN :
                (/\ ExplainAnalogy(paper_id, target_paper_id, TRUE, ok)
                 /\ (Unknown(paper_id) \/ Unknown(target_paper_id)))
                    => rank'.outcome.status = "not_found"]_vars

====
